---- MODULE Spec2Model ----
(***************************************************************************)
(* Model of the status-page updater of blockchain_backup:                  *)
(*   source/static/js/bitcoin.js     the pull (AJAX polling) variant       *)
(*   source/static/js/blockchain.js  the push (websocket) variant          *)
(*                                                                         *)
(* Strings are sequences of atoms. An atom is a piece of text that the     *)
(* code never splits: a word, a number, or one of the delimiters "=", ":", *)
(* " " and "?". The atoms are chosen so that a substring the code searches *)
(* for ("disabled", "=", ":") occurs in a string exactly where the atom    *)
(* of that text occurs. indexOf, substring and slice then act on atoms as  *)
(* they act on characters in the code.                                     *)
(***************************************************************************)
EXTENDS Integers, Sequences, FiniteSets, TLC

VARIABLES
    mode,       \* "pull": the page loads bitcoin.js; "push": blockchain.js
    tree,       \* the document: a sequence of elements in document order
    location,   \* window.location.pathname
    ticks,      \* requests issued (pull) or messages published (push) so far
    inflight,   \* ids of the status requests that have no response yet
    queue,      \* delivered messages whose callback has not run yet
    delivered,  \* history: ids in the order their messages arrived
    fed,        \* history: ids in the order they were given to the dispatcher
    navLog,     \* history: the urls given to window.location.assign
    hintLog,    \* history: the location hints of the dispatched messages
    last        \* history: the last pass (its message and the state before it)

vars == <<mode, tree, location, ticks, inflight, queue, delivered, fed,
          navLog, hintLog, last>>

(***************************************************************************)
(* Bounds                                                                  *)
(***************************************************************************)
MaxTicks == 3       \* delivery cycles of the delivery-loop specification
MaxFields == 2      \* fields of one update message
MaxClassLen == 5    \* atoms of an initial className
MaxLiveTicks == 2   \* delivery cycles of the specification with fairness

(***************************************************************************)
(* String primitives of JavaScript, on sequences of atoms                  *)
(***************************************************************************)
Min(a, b) == IF a < b THEN a ELSE b
Max(a, b) == IF a < b THEN b ELSE a

\* String.prototype.indexOf: the 0-based place of the first occurrence, or -1
IndexOf(s, a) ==
    IF \E i \in 1..Len(s) : s[i] = a
    THEN (CHOOSE i \in 1..Len(s) : s[i] = a /\ \A j \in 1..(i-1) : s[j] # a) - 1
    ELSE -1

\* String.prototype.substring(start, end): arguments are clamped to
\* 0..length and swapped when start > end
Substring(s, start, end) ==
    LET a == Min(Max(start, 0), Len(s))
        b == Min(Max(end, 0), Len(s))
    IN  SubSeq(s, Min(a, b) + 1, Max(a, b))

\* String.prototype.slice(0, k) for k >= 0
Slice0(s, k) == SubSeq(s, 1, Min(k, Len(s)))

(***************************************************************************)
(* Elements and the document                                               *)
(*   id, name     plain strings, "" when the element has no such attribute *)
(*   innerHTML    the content markup                                       *)
(*   className    the class attribute                                      *)
(*   attrs        the other declared attributes: attribute name -> value   *)
(*   width        element.style.width, <<>> when not set                   *)
(***************************************************************************)
El(id, name, html, cls, attrs) ==
    [id |-> id, name |-> name, innerHTML |-> html, className |-> cls,
     attrs |-> attrs, width |-> <<>>]

NoAttrs == [a \in {} |-> <<>>]
OneAttr(a, v) == [x \in {a} |-> v]

\* document.getElementById(name): the index of the first element with the
\* id, 0 for null
getElementById(tr, name) ==
    IF \E i \in 1..Len(tr) : tr[i].id = name
    THEN CHOOSE i \in 1..Len(tr) :
            tr[i].id = name /\ \A j \in 1..(i-1) : tr[j].id # name
    ELSE 0

\* document.getElementsByName(name): the indexes of the elements whose name
\* attribute is name (the NodeList, in document order)
getElementsByName(tr, name) == {i \in 1..Len(tr) : tr[i].name = name}

hasAttribute(el, attr) == attr \in DOMAIN el.attrs

setAttribute(el, attr, value) ==
    [el EXCEPT !.attrs = [a \in DOMAIN el.attrs \cup {attr} |->
                            IF a = attr THEN value ELSE el.attrs[a]]]

(***************************************************************************)
(* bitcoin.js: update_element                                              *)
(***************************************************************************)
\* A mutation of EnableClass: removes the first occurrence only
EnableClassOnce(className) ==
    LET k == IndexOf(className, "disabled")
    IN  IF k >= 0
        THEN Slice0(className, k) \o SubSeq(className, k + 2, Len(className))
        ELSE className

\* lines 138-142: while (k >= 0) { className = className.slice(0, k); ... }
RECURSIVE EnableClass(_)
EnableClass(className) ==
    LET k == IndexOf(className, "disabled")
    IN  IF k >= 0 THEN EnableClass(Slice0(className, k)) ELSE className

\* lines 132-151: the branch attr == 'state'
UpdateState(el, value) ==
    IF value = <<"enabled">>
    THEN [el EXCEPT !.className = EnableClass(el.className)]
    ELSE IF IndexOf(el.className, "disabled") = -1
         THEN [el EXCEPT !.className = el.className \o <<" ">> \o value]
         ELSE el

\* The CSS parser accepts a width of a number followed by "%"; an assignment
\* of anything else to element.style.width is ignored.
Numbers == {"42", "7"}
IsNumber(s) == Len(s) = 1 /\ s[1] \in Numbers

\* A mutation of UpdateStyle: width is written like any other property
UpdateStyleRaw(el, attr, value) ==
    IF hasAttribute(el, attr)
    THEN [el |-> setAttribute(el, attr, value), threw |-> FALSE]
    ELSE [el |-> el, threw |-> TRUE]

\* lines 152-170: the branch attr == 'style'. The else branch reads
\* `property`, which is declared by `let` inside the if block only: the read
\* throws a ReferenceError.
UpdateStyle(el, attr, value) ==
    IF hasAttribute(el, attr)
    THEN LET index == IndexOf(value, ":")
             property == Substring(value, 0, index)
             style == Substring(value, index + 1, Len(value))
         IN  IF property = <<"width">>
             THEN [el |-> IF IsNumber(style)
                          THEN [el EXCEPT !.width = style \o <<"%">>]
                          ELSE el,
                   threw |-> FALSE]
             ELSE [el |-> [setAttribute(el, attr, value) EXCEPT !.width = <<>>],
                   threw |-> FALSE]
    ELSE [el |-> el, threw |-> TRUE]

\* A mutation of UpdateGeneric: the attribute is set whether declared or not
UpdateGenericAlways(el, attr, value) == setAttribute(el, attr, value)

\* lines 171-180: any other attribute
UpdateGeneric(el, attr, value) ==
    IF hasAttribute(el, attr)
    THEN setAttribute(el, attr, value)
    ELSE [el EXCEPT !.innerHTML = value]

\* lines 127-181; the result is the element and whether the call threw
update_element(el, attr, value) ==
    IF attr = <<"state">> THEN [el |-> UpdateState(el, value), threw |-> FALSE]
    ELSE IF attr = <<"style">> THEN UpdateStyle(el, attr, value)
    ELSE [el |-> UpdateGeneric(el, attr, value), threw |-> FALSE]

(***************************************************************************)
(* bitcoin.js: update_html, update_attribute, update_location              *)
(***************************************************************************)
\* lines 63-88. getElementsByName returns a NodeList, which is truthy even
\* when empty: the loop then runs zero times.
update_html(tr, name, value) ==
    LET element == getElementById(tr, name)
        elements == getElementsByName(tr, name)
    IN  [i \in 1..Len(tr) |->
            IF element # 0
            THEN IF i = element THEN [tr[i] EXCEPT !.innerHTML = value] ELSE tr[i]
            ELSE IF i \in elements THEN [tr[i] EXCEPT !.innerHTML = value] ELSE tr[i]]

\* line 10: 'use strict'. An assignment to an undeclared name throws a
\* ReferenceError in strict code.
StrictMode == TRUE

\* lines 109-111: update_element on each named element in document order; a
\* throw ends the loop and leaves the later elements as they were
UpdateNamed(tr, named, attr, new_value) ==
    LET res(i) == update_element(tr[i], attr, new_value)
        throwers == {i \in named : res(i).threw}
        stop == IF throwers = {} THEN Len(tr) + 1
                ELSE CHOOSE i \in throwers : \A j \in throwers : i <= j
    IN  [tree |-> [i \in 1..Len(tr) |->
                     IF i \in named /\ i < stop THEN res(i).el ELSE tr[i]],
         threw |-> throwers # {}]

\* lines 116-122: `id_element = document.getElementById(name)` assigns to a
\* name that is declared nowhere
UpdateById(tr, name, attr, new_value) ==
    IF StrictMode
    THEN [tree |-> tr, threw |-> TRUE]
    ELSE LET id_element == getElementById(tr, name)
         IN  IF id_element = 0
             THEN [tree |-> tr, threw |-> FALSE]
             ELSE LET res == update_element(tr[id_element], attr, new_value)
                  IN  [tree |-> [tr EXCEPT ![id_element] = res.el],
                       threw |-> res.threw]

\* lines 90-125; the result is the document and whether the call threw
update_attribute(tr, name, value) ==
    IF value # <<>> /\ IndexOf(value, "=") >= 0
    THEN LET j == IndexOf(value, "=")
             attr == Substring(value, 0, j)
             new_value == Substring(value, j + 1, Len(value))
             named_elements == getElementsByName(tr, name)
         IN  IF Cardinality(named_elements) > 0
             THEN UpdateNamed(tr, named_elements, attr, new_value)
             ELSE UpdateById(tr, name, attr, new_value)
    ELSE [tree |-> tr, threw |-> FALSE]

\* A JSON null value of a field
Null == <<"null">>

\* window.location.pathname once the browser has navigated to url: the part
\* of the url before its query. The urls of the model are absolute paths
\* with an optional query.
Pathname(url) ==
    IF IndexOf(url, "?") >= 0 THEN Substring(url, 0, IndexOf(url, "?")) ELSE url

\* A mutation of update_location: no comparison with the current location
update_location_unguarded(st, url) ==
    IF url # Null THEN [st EXCEPT !.navs = Append(st.navs, url)] ELSE st

\* lines 183-196. st is the state of the pass: st.location is
\* window.location.pathname and st.navs the urls given to
\* window.location.assign. `null != undefined` is false.
update_location(st, url) ==
    IF url # Null
    THEN LET current_location == st.location
         IN  IF url # current_location
             THEN [st EXCEPT !.navs = Append(st.navs, url)]
             ELSE st
    ELSE st

(***************************************************************************)
(* bitcoin.js: process_response                                            *)
(* A decoded message is the sequence of its fields in the order of the     *)
(* for-in loop; a field is [name, value].                                  *)
(***************************************************************************)
\* A mutation of Classify: an unknown name is treated as content
ClassifyAll(name) ==
    IF name \in {"alert", "nav-link"} THEN "attribute"
    ELSE IF name = "location" THEN "location"
    ELSE "content"

\* lines 41-57: the kind of a field by its name
Classify(name) ==
    IF name \in {"header", "notice", "subnotice", "progress"} THEN "content"
    ELSE IF name \in {"alert", "nav-link"} THEN "attribute"
    ELSE IF name = "location" THEN "location"
    ELSE "ignored"

\* lines 40-57: one iteration of the loop
ApplyField(f, st) ==
    LET kind == Classify(f.name)
    IN  IF kind = "content"
        THEN [st EXCEPT !.tree = update_html(st.tree, f.name, f.value)]
        ELSE IF kind = "attribute"
        THEN LET res == update_attribute(st.tree, f.name, f.value)
             IN  [st EXCEPT !.tree = res.tree, !.threw = res.threw]
        ELSE IF kind = "location"
        THEN update_location(st, f.value)
        ELSE st

\* lines 39-58: the loop from field i on; an exception ends it
RECURSIVE ProcessFields(_, _, _)
ProcessFields(data, i, st) ==
    IF i > Len(data) \/ st.threw
    THEN st
    ELSE ProcessFields(data, i + 1, ApplyField(data[i], st))

\* A mutation of DataError: the error field is not tested
DataErrorNever(data) == FALSE

\* line 30: data.error is truthy (a non-empty string)
DataError(data) ==
    \E i \in 1..Len(data) : data[i].name = "error" /\ data[i].value # <<>>

\* The argument of the callback: no body, a body JSON.parse rejects, the
\* JSON text null, or the JSON text of a message
UndefinedBody == [kind |-> "undefined", data |-> <<>>]
MalformedBody == [kind |-> "malformed", data |-> <<>>]
NullBody == [kind |-> "null", data |-> <<>>]
JsonBody(data) == [kind |-> "json", data |-> data]

\* A mutation of process_response: a body that does not decode is reported
\* in the header
process_response_reports(message, st) ==
    IF message.kind = "undefined" THEN st
    ELSE IF message.kind = "json"
    THEN IF DataError(message.data) THEN st
         ELSE ProcessFields(message.data, 1, st)
    ELSE [st EXCEPT !.tree = update_html(st.tree, "header", <<"error">>)]

\* lines 21-61
process_response(message, st) ==
    IF message.kind # "undefined"
    THEN IF message.kind = "malformed"
         THEN [st EXCEPT !.threw = TRUE]               \* JSON.parse throws
         ELSE IF message.kind = "null"
         THEN [st EXCEPT !.threw = TRUE]               \* null.error throws
         ELSE LET data == message.data
              IN  IF DataError(data)
                  THEN st
                  ELSE ProcessFields(data, 1, st)
    ELSE st

(***************************************************************************)
(* blockchain.js: update. It calls update_html(updates, names),            *)
(* update_attributes(updates, names) and update_location(updates, names),  *)
(* which are defined in another script of the page; they are modelled here *)
(* as the Content Updater, Attribute Patcher and Navigation Guard.         *)
(***************************************************************************)
IsDisabledToken(s, i) ==
    /\ s[i] = "disabled"
    /\ (i = 1 \/ s[i-1] = " ")
    /\ (i = Len(s) \/ s[i+1] = " ")

\* The atoms of s at the places P, in order
Keep(s, P) ==
    [k \in 1..Cardinality(P) |->
        s[CHOOSE i \in P : Cardinality({j \in P : j <= i}) = k]]

\* Target Resolver: by identifier first, else the named group
Resolve(tr, name) ==
    IF getElementById(tr, name) # 0
    THEN {getElementById(tr, name)}
    ELSE getElementsByName(tr, name)

\* Content Updater
ContentUpdater(tr, name, markup) ==
    [i \in 1..Len(tr) |->
        IF i \in Resolve(tr, name) THEN [tr[i] EXCEPT !.innerHTML = markup]
        ELSE tr[i]]

\* Attribute Patcher, on one resolved element
PatchElement(el, attrName, attrValue) ==
    IF attrName = <<"state">>
    THEN IF attrValue = <<"enabled">>
         THEN [el EXCEPT !.className =
                 Keep(el.className, {i \in 1..Len(el.className) :
                                       ~IsDisabledToken(el.className, i)})]
         ELSE IF \E i \in 1..Len(el.className) : IsDisabledToken(el.className, i)
              THEN el
              ELSE [el EXCEPT !.className = el.className \o <<" ", "disabled">>]
    ELSE IF attrName = <<"style">>
    THEN IF hasAttribute(el, attrName)
         THEN LET index == IndexOf(attrValue, ":")
                  property == Substring(attrValue, 0, index)
                  raw == Substring(attrValue, index + 1, Len(attrValue))
              IN  IF index >= 0 /\ property = <<"width">>
                  THEN IF IsNumber(raw)
                       THEN [el EXCEPT !.width = raw \o <<"%">>]
                       ELSE el
                  ELSE [setAttribute(el, attrName, attrValue) EXCEPT !.width = <<>>]
         ELSE el
    ELSE UpdateGeneric(el, attrName, attrValue)

\* Attribute Patcher
AttributePatcher(tr, name, rawValue) ==
    IF IndexOf(rawValue, "=") >= 0
    THEN LET j == IndexOf(rawValue, "=")
             attrName == Substring(rawValue, 0, j)
             attrValue == Substring(rawValue, j + 1, Len(rawValue))
         IN  [i \in 1..Len(tr) |->
                IF i \in Resolve(tr, name)
                THEN PatchElement(tr[i], attrName, attrValue)
                ELSE tr[i]]
    ELSE tr

\* The names blockchain.js passes to each helper (lines 19-32)
PushContentNames == <<"header", "notice", "subnotice", "progress", "button">>
PushAttributeNames == <<"alert", "nav-link">>
PushLocationNames == <<"location">>

HasField(updates, name) == \E i \in 1..Len(updates) : updates[i].name = name
FieldValue(updates, name) ==
    updates[CHOOSE i \in 1..Len(updates) : updates[i].name = name].value

\* One helper call of update: the names of the list found in updates, in
\* the order of the list
RECURSIVE PushApply(_, _, _, _, _)
PushApply(kind, names, k, updates, st) ==
    IF k > Len(names)
    THEN st
    ELSE LET name == names[k]
             next ==
               IF ~HasField(updates, name) THEN st
               ELSE IF kind = "content"
               THEN [st EXCEPT !.tree =
                       ContentUpdater(st.tree, name, FieldValue(updates, name))]
               ELSE IF kind = "attribute"
               THEN [st EXCEPT !.tree =
                       AttributePatcher(st.tree, name, FieldValue(updates, name))]
               ELSE update_location(st, FieldValue(updates, name))
         IN  PushApply(kind, names, k + 1, updates, next)

\* blockchain.js lines 8-33
update(data, st) ==
    IF data.kind # "json"
    THEN [st EXCEPT !.threw = TRUE]                    \* JSON.parse throws
    ELSE LET updates == data.data
             s1 == PushApply("content", PushContentNames, 1, updates, st)
             s2 == PushApply("attribute", PushAttributeNames, 1, updates, s1)
         IN  PushApply("location", PushLocationNames, 1, updates, s2)

(***************************************************************************)
(* The values the server sends and the pages the scripts run in            *)
(***************************************************************************)
F(n, v) == [name |-> n, value |-> v]

Hello == <<"hello">>
StatusPath == <<"/status">>
WalletPath == <<"/wallet">>
WalletQuery == <<"/wallet", "?", "tab">>
Paths == {StatusPath, WalletPath}

StateEnabled == <<"state", "=", "enabled">>
StateDisabled == <<"state", "=", "disabled">>
StateHidden == <<"state", "=", "hidden">>

ContentFields ==
    {F("header", Hello), F("notice", Hello), F("subnotice", Hello),
     F("progress", <<"50">>), F("button", Hello)}
AttributeFields ==
    {F("alert", <<"title", "=", "hello">>),
     F("alert", <<"title", "=", "a", "=", "b">>),
     F("alert", <<"nohash">>),
     F("nav-link", StateEnabled), F("nav-link", StateDisabled),
     F("nav-link", StateHidden),
     F("nav-link", <<"style", "=", "width", ":", "42">>),
     F("nav-link", <<"style", "=", "color", ":", "red">>),
     F("nav-link", <<"title", "=", "hello">>)}
LocationFields ==
    {F("location", StatusPath), F("location", WalletPath),
     F("location", WalletQuery), F("location", Null)}
OtherFields == {F("foo", Hello), F("error", <<"oops">>), F("error", <<>>)}

AllFields == ContentFields \cup AttributeFields \cup LocationFields \cup OtherFields
LoopFields ==
    {F("location", StatusPath), F("location", WalletPath),
     F("location", WalletQuery), F("header", Hello)}
StateFields ==
    {F("nav-link", StateEnabled), F("nav-link", StateDisabled),
     F("nav-link", StateHidden)}

\* The messages of 1..n fields over Fs; the keys of a JSON object are distinct
MessagesOver(Fs, n) ==
    {m \in UNION {[1..k -> Fs] : k \in 1..n} :
        \A i, j \in 1..Len(m) : i # j => m[i].name # m[j].name}

Bodies(Ms) ==
    {UndefinedBody, MalformedBody, NullBody} \cup {JsonBody(m) : m \in Ms}

LoopMessages == MessagesOver(LoopFields, 1)
AllMessages == MessagesOver(AllFields, MaxFields)
StateMessages == MessagesOver(StateFields, 1)
LiveMessages ==
    MessagesOver({F("header", Hello), F("alert", <<"title", "=", "hello">>)}, 1)

NavLink == <<"nav-link">>
StyleAttr == OneAttr(<<"style">>, <<"width", ":", "0">>)
TitleAttr == OneAttr(<<"title">>, <<>>)

\* A status page: every target exists, alert by id, nav-link as a group
PageFull ==
    <<El("header", "", <<>>, <<>>, NoAttrs),
      El("progress", "", <<>>, <<>>, NoAttrs),
      El("alert", "", <<>>, <<>>, TitleAttr),
      El("", "nav-link", <<>>, NavLink, StyleAttr),
      El("", "nav-link", <<>>, NavLink \o <<" ", "disabled">>, NoAttrs),
      El("button", "", <<>>, <<>>, NoAttrs)>>

\* A page where a name is both an id and the name of other elements
PageBoth ==
    <<El("alert", "", <<>>, <<>>, NoAttrs),
      El("", "alert", <<>>, <<>>, TitleAttr),
      El("header", "", <<>>, <<>>, NoAttrs),
      El("", "header", <<>>, <<>>, NoAttrs),
      El("nav-link", "", <<>>, NavLink, StyleAttr),
      El("", "nav-link", <<>>, NavLink, StyleAttr)>>

\* A page with no header and no alert
PageSparse ==
    <<El("progress", "", <<>>, <<>>, NoAttrs),
      El("", "nav-link", <<>>, NavLink, StyleAttr)>>

Pages == {PageFull, PageBoth, PageSparse}

\* Every className of at most MaxClassLen atoms
ClassAtoms == {"disabled", " ", "nav-link"}
ClassNames == UNION {[1..k -> ClassAtoms] : k \in 0..MaxClassLen}
ElementPages == {<<El("", "nav-link", <<>>, c, NoAttrs)>> : c \in ClassNames}

(***************************************************************************)
(* The delivery loop                                                       *)
(***************************************************************************)
NoPass == [id |-> 0, body |-> UndefinedBody, tree |-> <<>>, location |-> <<>>,
           navs |-> <<>>, threw |-> FALSE]

InitWith(Trees, Locations) ==
    /\ mode \in {"pull", "push"}
    /\ tree \in Trees
    /\ location \in Locations
    /\ ticks = 0
    /\ inflight = {}
    /\ queue = <<>>
    /\ delivered = <<>>
    /\ fed = <<>>
    /\ navLog = <<>>
    /\ hintLog = <<>>
    /\ last = NoPass

\* bitcoin.js lines 12-19: the interval timer fires and update_ajax issues a
\* request, whatever requests are outstanding
update_ajax(budget) ==
    /\ mode = "pull"
    /\ ticks < budget
    /\ ticks' = ticks + 1
    /\ inflight' = inflight \cup {ticks + 1}
    /\ UNCHANGED <<mode, tree, location, queue, delivered, fed, navLog,
                   hintLog, last>>

\* The response to an outstanding request arrives: $.get queues the success
\* callback with the body
Respond(Ms) ==
    /\ mode = "pull"
    /\ \E r \in inflight :
          /\ inflight' = inflight \ {r}
          /\ delivered' = Append(delivered, r)
          /\ \E body \in Bodies(Ms) :
                queue' = Append(queue, [id |-> r, body |-> body])
    /\ UNCHANGED <<mode, tree, location, ticks, fed, navLog, hintLog, last>>

\* An outstanding request fails: the success callback is never called
Fail ==
    /\ mode = "pull"
    /\ \E r \in inflight : inflight' = inflight \ {r}
    /\ UNCHANGED <<mode, tree, location, ticks, queue, delivered, fed, navLog,
                   hintLog, last>>

\* blockchain.js lines 35-41: a message is published on the subscribed
\* channel and the callback is queued with it
Publish(Ms, budget) ==
    /\ mode = "push"
    /\ ticks < budget
    /\ ticks' = ticks + 1
    /\ \E body \in {MalformedBody, NullBody} \cup {JsonBody(m) : m \in Ms} :
          queue' = Append(queue, [id |-> ticks + 1, body |-> body])
    /\ delivered' = Append(delivered, ticks + 1)
    /\ UNCHANGED <<mode, tree, location, inflight, fed, navLog, hintLog, last>>

\* A mutation of TaskIndex: the newest callback runs first
TaskIndexNewest(q) == Len(q)

\* The event loop runs the queued callbacks one at a time, oldest first
TaskIndex(q) == 1

RemoveAt(q, i) == SubSeq(q, 1, i - 1) \o SubSeq(q, i + 1, Len(q))

LocationHint(body) ==
    IF body.kind = "json" /\ HasField(body.data, "location")
                          /\ FieldValue(body.data, "location") # Null
    THEN <<FieldValue(body.data, "location")>>
    ELSE <<>>

\* The callback the event loop runs next, and the state it starts from
Task == queue[TaskIndex(queue)]
Start == [tree |-> tree, location |-> location, navs |-> <<>>, threw |-> FALSE]

\* One callback has run to completion and left the pass state st: the
\* document is as the pass left it and the browser follows the last
\* window.location.assign
Commit(st) ==
    /\ queue' = RemoveAt(queue, TaskIndex(queue))
    /\ fed' = Append(fed, Task.id)
    /\ tree' = st.tree
    /\ location' = IF st.navs = <<>> THEN location
                   ELSE Pathname(st.navs[Len(st.navs)])
    /\ navLog' = navLog \o st.navs
    /\ hintLog' = hintLog \o LocationHint(Task.body)
    /\ last' = [id |-> Task.id, body |-> Task.body, tree |-> tree,
                location |-> location, navs |-> st.navs, threw |-> st.threw]
    /\ UNCHANGED <<mode, ticks, inflight, delivered>>

\* A mutation of ProcessResponse: no callback runs once a pass has thrown
ProcessResponseHalts ==
    /\ mode = "pull"
    /\ queue # <<>>
    /\ ~last.threw
    /\ Commit(process_response(Task.body, Start))

\* bitcoin.js line 18: the success callback
ProcessResponse ==
    /\ mode = "pull"
    /\ queue # <<>>
    /\ Commit(process_response(Task.body, Start))

\* blockchain.js lines 36-38: the subscription callback
Update ==
    /\ mode = "push"
    /\ queue # <<>>
    /\ Commit(update(Task.body, Start))

NextWith(Ms, budget) ==
    \/ update_ajax(budget)
    \/ Respond(Ms)
    \/ Fail
    \/ ProcessResponse
    \/ Publish(Ms, budget)
    \/ Update

\* The delivery loop over several cycles
Init == InitWith({PageFull}, Paths)
Next == NextWith(LoopMessages, MaxTicks)
Spec == Init /\ [][Next]_vars

\* The delivery loop with the scheduling of the browser: a queued callback
\* is run
InitLive == InitWith({PageFull}, {StatusPath})
NextLive == NextWith(LiveMessages, MaxLiveTicks)
SpecLive ==
    InitLive /\ [][NextLive]_vars /\ WF_vars(ProcessResponse) /\ WF_vars(Update)

\* One reconciliation pass of any message on any page
InitPass == InitWith(Pages, Paths)
NextPass == NextWith(AllMessages, 1)
SpecPass == InitPass /\ [][NextPass]_vars

\* State directives on one element of any className
InitElement == InitWith(ElementPages, {StatusPath})
NextElement == NextWith(StateMessages, 2)
SpecElement == InitElement /\ [][NextElement]_vars

(***************************************************************************)
(* Properties                                                              *)
(***************************************************************************)
\* The last callback was process_response on a decoded message
PullPass == mode = "pull" /\ last.id # 0 /\ last.body.kind = "json"

\* The state the last pass started from, and what the pass did
PassStart == [tree |-> last.tree, location |-> last.location, navs |-> <<>>,
              threw |-> FALSE]
Effect(st) == [tree |-> st.tree, navs |-> st.navs, threw |-> st.threw]
PassEffect == [tree |-> tree, navs |-> last.navs, threw |-> last.threw]

\* What process_response does with another message from the same state
EffectOf(data) == Effect(process_response(JsonBody(data), PassStart))

\* The state of the last pass before its i-th field
BeforeField(i) == ProcessFields(SubSeq(last.body.data, 1, i - 1), 1, PassStart)

CountDisabledTokens(s) == Cardinality({i \in 1..Len(s) : IsDisabledToken(s, i)})

ContentNames == {"header", "notice", "subnotice", "progress"}
AttributeNames == {"alert", "nav-link"}
KnownNames == ContentNames \cup AttributeNames \cup {"location"}

\* C1: a content or attribute field whose name resolves to no element, by id
\* or by name, changes nothing and does not abort the pass: the pass does
\* what it does on the message without that field.
C1_UnresolvedFieldSkipped ==
    PullPass =>
      \A i \in 1..Len(last.body.data) :
        LET name == last.body.data[i].name
        IN  ( /\ name \in ContentNames \cup AttributeNames
              /\ getElementById(last.tree, name) = 0
              /\ getElementsByName(last.tree, name) = {} )
            => PassEffect = EffectOf(RemoveAt(last.body.data, i))

\* C2: when the document holds an element with the id of a content or
\* attribute field and other elements with that name, the field changes no
\* element other than the one found by id.
C2_IdBeforeName ==
    (PullPass /\ ~DataError(last.body.data)) =>
      \A i \in 1..Len(last.body.data) :
        LET f == last.body.data[i]
            before == BeforeField(i)
            byId == getElementById(before.tree, f.name)
        IN  ( /\ f.name \in ContentNames \cup AttributeNames
              /\ ~before.threw
              /\ byId # 0
              /\ getElementsByName(before.tree, f.name) \ {byId} # {} )
            => /\ ~ApplyField(f, before).threw
               /\ \A j \in 1..Len(before.tree) :
                     j # byId => ApplyField(f, before).tree[j] = before.tree[j]

IsStateDirective(body) ==
    /\ body.kind = "json"
    /\ Len(body.data) = 1
    /\ body.data[1].name = "nav-link"
    /\ Len(body.data[1].value) >= 2
    /\ SubSeq(body.data[1].value, 1, 2) = <<"state", "=">>

StateValue(body) == SubSeq(body.data[1].value, 3, Len(body.data[1].value))

\* C3: a pass that applies the state directive the pass before it applied
\* leaves every className as it is.
C3_StateIdempotent ==
    [][ ( /\ mode = "pull"
          /\ fed' # fed
          /\ last.id # 0
          /\ IsStateDirective(last.body)
          /\ last'.body = last.body )
        => tree' = tree ]_vars

\* C4: right after a state directive with a value other than 'enabled', an
\* element that held the disabled token at most once holds it exactly once.
C4_DisabledOnce ==
    ( /\ PullPass
      /\ IsStateDirective(last.body)
      /\ StateValue(last.body) # <<"enabled">> )
    => \A i \in getElementsByName(last.tree, "nav-link") :
          CountDisabledTokens(last.tree[i].className) <= 1
          => CountDisabledTokens(tree[i].className) = 1

\* C5: after state=enabled is applied, the className of the element holds
\* no disabled token, however many it held before.
C5_EnabledRemovesAll ==
    ( /\ PullPass
      /\ IsStateDirective(last.body)
      /\ StateValue(last.body) = <<"enabled">> )
    => \A i \in getElementsByName(last.tree, "nav-link") :
          CountDisabledTokens(tree[i].className) = 0

\* C5 witness: state=enabled was applied to a className with three disabled
\* tokens
C5_Witness ==
    /\ PullPass
    /\ IsStateDirective(last.body)
    /\ StateValue(last.body) = <<"enabled">>
    /\ CountDisabledTokens(last.tree[1].className) = 3
    /\ CountDisabledTokens(tree[1].className) = 0

\* C6: a pass navigates exactly once, to url, when its message carries a
\* location url that differs from the current path, and not at all
\* otherwise. Stated for the messages the dispatcher does not drop (no
\* truthy error field).
C6_OneNavigation ==
    (PullPass /\ ~DataError(last.body.data)) =>
      LET hint == LocationHint(last.body)
      IN  IF hint # <<>> /\ hint[1] # last.location
          THEN last.navs = <<hint[1]>>
          ELSE last.navs = <<>>

AllHintsAre(L) == \A i \in 1..Len(hintLog) : hintLog[i] = L

Hints == {StatusPath, WalletPath, WalletQuery}

\* C7 as claimed: while every location hint so far is the same L, at most
\* one navigation has been performed.
C7_Original ==
    mode = "pull" =>
      \A L \in Hints : AllHintsAre(L) => Len(navLog) <= 1

\* C7 amended: while every location hint so far is the same L and L is a
\* bare path (the pathname of L is L), at most one navigation has been
\* performed.
C7_AtMostOneNavigation ==
    mode = "pull" =>
      \A L \in Hints :
        (AllHintsAre(L) /\ Pathname(L) = L) => Len(navLog) <= 1

\* C7 witness: two passes carried the hint /wallet, one navigation happened
C7_Witness ==
    /\ mode = "pull"
    /\ Len(hintLog) >= 2
    /\ AllHintsAre(WalletPath)
    /\ navLog = <<WalletPath>>
    /\ location = WalletPath

\* C8: the messages given to the dispatcher so far are the delivered
\* messages, each once, in the order they arrived; the messages not yet
\* given to it wait in that order, and the last pass is the one of the
\* newest of them.
C8_FedInArrivalOrder ==
    /\ Len(fed) <= Len(delivered)
    /\ fed = SubSeq(delivered, 1, Len(fed))
    /\ \A i, j \in 1..Len(fed) : i # j => fed[i] # fed[j]
    /\ [k \in 1..Len(queue) |-> queue[k].id]
         = SubSeq(delivered, Len(fed) + 1, Len(delivered))
    /\ last.id = IF fed = <<>> THEN 0 ELSE fed[Len(fed)]

\* C8 witness: two passes have run while a later message was waiting
C8_Witness ==
    /\ Len(fed) >= 2
    /\ Len(queue) >= 1

\* C9: at most one status request is outstanding at any time.
C9_OneRequestInFlight == Cardinality(inflight) <= 1

IsUnknown(f) == f.name \notin KnownNames
IsTruthyError(f) == f.name = "error" /\ f.value # <<>>

\* C10 as claimed: the pass of a message with an unrecognized field does what
\* the pass of the message without that field does.
C10_Original ==
    PullPass =>
      \A i \in 1..Len(last.body.data) :
        IsUnknown(last.body.data[i])
        => PassEffect = EffectOf(RemoveAt(last.body.data, i))

\* C10 amended: the pass of a message with an unrecognized field other than
\* a truthy error field does what the pass of the message without that field
\* does.
C10_UnknownFieldIgnored ==
    PullPass =>
      \A i \in 1..Len(last.body.data) :
        (IsUnknown(last.body.data[i]) /\ ~IsTruthyError(last.body.data[i]))
        => PassEffect = EffectOf(RemoveAt(last.body.data, i))

\* C10 witness: a pass of a message with an unrecognized field and a known
\* field changed the document
C10_Witness ==
    /\ PullPass
    /\ \E i, j \in 1..Len(last.body.data) :
          /\ IsUnknown(last.body.data[i])
          /\ last.body.data[j].name \in KnownNames
    /\ ~last.threw
    /\ tree # last.tree

\* The names of the last message each dispatcher forwards as a kind
PullForwarded(kind) ==
    {last.body.data[i].name : i \in {j \in 1..Len(last.body.data) :
                                       Classify(last.body.data[j].name) = kind}}
PushForwarded(names) ==
    {names[k] : k \in {j \in 1..Len(names) : HasField(last.body.data, names[j])}}

\* C11: process_response and update forward the same fields of a message as
\* content, as attribute and as location. Stated for the messages
\* process_response does not drop (no truthy error field).
C11_SameClassification ==
    (last.id # 0 /\ last.body.kind = "json" /\ ~DataError(last.body.data)) =>
      /\ PullForwarded("content") = PushForwarded(PushContentNames)
      /\ PullForwarded("attribute") = PushForwarded(PushAttributeNames)
      /\ PullForwarded("location") = PushForwarded(PushLocationNames)

\* The place of the first "=" of a raw attribute value (0 when it has none)
FirstEquals(v) ==
    IF \E j \in 1..Len(v) : v[j] = "="
    THEN CHOOSE j \in 1..Len(v) : v[j] = "=" /\ \A k \in 1..(j-1) : v[k] # "="
    ELSE 0

IsStyleValue(v) == Len(v) >= 2 /\ SubSeq(v, 1, 2) = <<"style", "=">>
IsWidthValue(v) == Len(v) = 3 /\ SubSeq(v, 1, 2) = <<"width", ":">>

\* The named elements update_element is called on with a style directive:
\* those with no element before them that declares no style
StyleReached(tr, name) ==
    {e \in getElementsByName(tr, name) :
        \A d \in getElementsByName(tr, name) :
            d < e => <<"style">> \in DOMAIN tr[d].attrs}

\* C13: on an element that declares style, style=width:N sets the width to
\* N% and writes neither the raw string nor the content; any other
\* property value is written whole as the style attribute.
C13_StyleShorthand ==
    (PullPass /\ ~DataError(last.body.data)) =>
      \A i \in 1..Len(last.body.data) :
        LET f == last.body.data[i]
            before == BeforeField(i)
            after == ApplyField(f, before)
            v == SubSeq(f.value, 3, Len(f.value))
        IN  ( /\ f.name \in AttributeNames
              /\ ~before.threw
              /\ IsStyleValue(f.value) )
            => \A e \in StyleReached(before.tree, f.name) :
                  <<"style">> \in DOMAIN before.tree[e].attrs
                  => IF IsWidthValue(v)
                     THEN /\ after.tree[e].width = <<v[3], "%">>
                          /\ after.tree[e].attrs[<<"style">>] # v
                          /\ after.tree[e].innerHTML = before.tree[e].innerHTML
                     ELSE after.tree[e].attrs[<<"style">>] = v

\* C13 witness: style=width:42 was applied to an element that declares
\* style and its width is 42%
C13_Witness ==
    /\ PullPass
    /\ last.body.data = <<F("nav-link", <<"style", "=", "width", ":", "42">>)>>
    /\ \E e \in 1..Len(tree) :
          /\ tree[e].name = "nav-link"
          /\ <<"style">> \in DOMAIN last.tree[e].attrs
          /\ last.tree[e].width = <<>>
          /\ tree[e].width = <<"42", "%">>

\* A cycle has ended in a failure: a request got no response, or the last
\* callback got no body, an undecodable body, or threw on a field
TransportFailed ==
    \E r \in 1..ticks :
        r \notin inflight /\ \A k \in 1..Len(delivered) : delivered[k] # r
FailedCycle ==
    \/ mode = "pull" /\ TransportFailed
    \/ last.id # 0 /\ (last.threw \/ last.body.kind # "json")

QueuedMessage(r) ==
    \E k \in 1..Len(queue) : queue[k].id = r /\ queue[k].body.kind = "json"
Dispatched(r) == \E k \in 1..Len(fed) : fed[k] = r

C15_BadBodyDropped ==
    (last.id # 0 /\ last.body.kind # "json") =>
      /\ tree = last.tree
      /\ location = last.location
      /\ last.navs = <<>>

\* C15 witness: process_response got a body that JSON.parse rejects, on a
\* page with a header
C15_Witness ==
    /\ mode = "pull"
    /\ last.id # 0
    /\ last.body.kind = "malformed"
    /\ last.threw
    /\ getElementById(last.tree, "header") # 0
    /\ tree = last.tree

\* C16: an attribute value with no "=" changes nothing, and a style
\* directive changes nothing on a named element that declares no style; in
\* both cases the call does not throw, so the pass goes on.
C16_MalformedDirectiveSkipped ==
    (PullPass /\ ~DataError(last.body.data)) =>
      \A i \in 1..Len(last.body.data) :
        LET f == last.body.data[i]
            before == BeforeField(i)
            after == ApplyField(f, before)
            named == getElementsByName(before.tree, f.name)
        IN  (f.name \in AttributeNames /\ ~before.threw) =>
              /\ FirstEquals(f.value) = 0 => after = before
              /\ (IsStyleValue(f.value) /\ named # {}) =>
                    /\ ~after.threw
                    /\ \A e \in named :
                          <<"style">> \notin DOMAIN before.tree[e].attrs
                          => after.tree[e] = before.tree[e]

Perms(n) == {p \in [1..n -> 1..n] : \A a, b \in 1..n : a # b => p[a] # p[b]}

\* C17: the document and the navigations of a pass are those of the pass of
\* the same fields in any other order.
C17_OrderIndependent ==
    PullPass =>
      \A p \in Perms(Len(last.body.data)) :
        LET other == [k \in 1..Len(last.body.data) |-> last.body.data[p[k]]]
        IN  /\ EffectOf(other).tree = tree
            /\ EffectOf(other).navs = last.navs

\* The tokens of a className: its maximal runs of atoms other than " "
Tokens(s) ==
    {SubSeq(s, a, b) : <<a, b>> \in
        {ab \in (1..Len(s)) \X (1..Len(s)) :
            /\ ab[1] <= ab[2]
            /\ \A k \in ab[1]..ab[2] : s[k] # " "
            /\ (ab[1] = 1 \/ s[ab[1] - 1] = " ")
            /\ (ab[2] = Len(s) \/ s[ab[2] + 1] = " ")}}

\* C18: after state=enabled every token of the className other than the
\* disabled token is still a token of it.
C18_OtherTokensKept ==
    ( /\ PullPass
      /\ IsStateDirective(last.body)
      /\ StateValue(last.body) = <<"enabled">> )
    => \A i \in getElementsByName(last.tree, "nav-link") :
          Tokens(last.tree[i].className) \ {<<"disabled">>}
              \subseteq Tokens(tree[i].className)

HasTruthyError(data) == \E i \in 1..Len(data) : IsTruthyError(data[i])

\* C19: a pass of process_response on a message with a truthy error field
\* applies no field: document and location are as before, and it does not
\* throw.
C19_ErrorOnlyLogged ==
    (PullPass /\ HasTruthyError(last.body.data)) =>
      /\ tree = last.tree
      /\ location = last.location
      /\ last.navs = <<>>
      /\ ~last.threw

\* C19 witness: the message held a truthy error and a header that would
\* have changed the header element, which is unchanged
C19_Witness ==
    /\ PullPass
    /\ HasTruthyError(last.body.data)
    /\ HasField(last.body.data, "header")
    /\ getElementById(last.tree, "header") # 0
    /\ last.tree[getElementById(last.tree, "header")].innerHTML
          # FieldValue(last.body.data, "header")
    /\ tree = last.tree

\* C20: the responses are given to process_response in the order their
\* requests were issued.
C20_IssueOrder ==
    mode = "pull" =>
      \A i, j \in 1..Len(fed) : i < j => fed[i] < fed[j]

====
